---- MODULE Spec2Model ----
(***************************************************************************)
(* A model of the pattern-page converter html_to_json.py: the needle-size  *)
(* normaliser, the shape classifier, the link extractor, the field         *)
(* extractor and record assembler parse_html, and the batch loop main.     *)
(*                                                                         *)
(* Text is modelled character by character: a Python str is a sequence of  *)
(* one-character strings, so lower-casing, whitespace collapsing, regular  *)
(* expression scanning and substring tests are computed, not assumed.      *)
(***************************************************************************)
EXTENDS Integers, Sequences, FiniteSets, TLC

VARIABLES
    \* ---- a single call of one of the pure helpers
    fn,            \* the helper that was called, "none" before any call
    arg,           \* its argument
    ret,           \* the value it returned
    \* ---- one run of parse_html over one page
    page,          \* the parsed document (soup)
    result,        \* the record under construction (a dict: key -> value)
    yarns,         \* the local list yarns
    fi,            \* number of field blocks already visited by the loop
    pc,            \* position in parse_html
    trans,         \* what the external translation call did for this page
    steps,         \* the order in which the stages of parse_html have run
    \* ---- one run of main over one input directory
    listing,       \* os.listdir(HTML_DIR): file name -> content
    html_files,    \* the sorted list of *.html names
    idx,           \* number of pages the for loop has completed
    all_patterns,  \* the in-memory aggregate
    out_files,     \* OUT_DIR: output name -> sequence of records written to it
    master,        \* MASTER_JSON: the sequence of dumps written to it
    mpc            \* position in main

fnVars   == <<fn, arg, ret>>
pageVars == <<page, result, yarns, fi, pc, trans, steps>>
mainVars == <<listing, html_files, idx, all_patterns, out_files, master, mpc>>
vars     == <<fn, arg, ret, page, result, yarns, fi, pc, trans, steps,
              listing, html_files, idx, all_patterns, out_files, master, mpc>>

(***************************************************************************)
(* Bounds of the model.                                                    *)
(***************************************************************************)
MaxShapeFrags  == 2   \* fragments concatenated into a detect_shape input
MaxNeedleFrags == 3   \* fragments concatenated into a normalize_needle input
MaxAnchors     == 2   \* anchors of a document given to extract_download_links
MaxFields      == 2   \* field blocks of a page (field-extractor runs)
MaxPageFields  == 1   \* field blocks of a page (whole parse_html runs)
MaxFiles       == 3   \* entries of the input directory

(***************************************************************************)
(* Characters and strings.                                                 *)
(***************************************************************************)
\* The character U+2192 (rightwards arrow), written with two ASCII signs.
ARROW == "->"

\* Python's None, where a str is expected: a sequence no string equals
None == <<"None">>

UpperLetters == <<"A","B","C","D","E","F","G","H","I","J","K","L","M",
                  "N","O","P","Q","R","S","T","U","V","W","X","Y","Z">>
LowerLetters == <<"a","b","c","d","e","f","g","h","i","j","k","l","m",
                  "n","o","p","q","r","s","t","u","v","w","x","y","z">>

\* str.lower() on one character
LowerChar(c) ==
    IF \E i \in 1..Len(UpperLetters) : UpperLetters[i] = c
    THEN LowerLetters[CHOOSE i \in 1..Len(UpperLetters) : UpperLetters[i] = c]
    ELSE c

\* str.lower()
Lower(s) == [i \in 1..Len(s) |-> LowerChar(s[i])]

\* sub in s
Contains(s, sub) ==
    \E i \in 1..(Len(s) - Len(sub) + 1) : SubSeq(s, i, i + Len(sub) - 1) = sub

\* s.startswith(p)
StartsWith(s, p) == Len(s) >= Len(p) /\ SubSeq(s, 1, Len(p)) = p

\* s.endswith(p)
EndsWith(s, p) == Len(s) >= Len(p) /\ SubSeq(s, Len(s) - Len(p) + 1, Len(s)) = p

\* the class \s of the regular expressions
IsSpace(c) == c \in {" ", "\n", "\t"}

\* the class \d
IsDigit(c) == c \in {"0","1","2","3","4","5","6","7","8","9"}

RECURSIVE Concat(_)
\* "".join(parts)
Concat(parts) == IF parts = <<>> THEN <<>> ELSE Head(parts) \o Concat(Tail(parts))

RECURSIVE Join(_, _)
\* sep.join(parts)
Join(sep, parts) ==
    IF parts = <<>> THEN <<>>
    ELSE IF Len(parts) = 1 THEN parts[1]
    ELSE parts[1] \o sep \o Join(sep, Tail(parts))

RECURSIVE CollapseSpace(_)
\* re.sub(r"\s+", " ", s)
CollapseSpace(s) ==
    IF s = <<>> THEN <<>>
    ELSE IF IsSpace(s[1])
         THEN IF Len(s) > 1 /\ IsSpace(s[2])
              THEN CollapseSpace(Tail(s))
              ELSE <<" ">> \o CollapseSpace(Tail(s))
         ELSE <<s[1]>> \o CollapseSpace(Tail(s))

RECURSIVE LStrip(_)
LStrip(s) == IF s # <<>> /\ IsSpace(s[1]) THEN LStrip(Tail(s)) ELSE s

RECURSIVE RStrip(_)
RStrip(s) ==
    IF s # <<>> /\ IsSpace(s[Len(s)]) THEN RStrip(SubSeq(s, 1, Len(s) - 1)) ELSE s

\* str.strip()
Strip(s) == RStrip(LStrip(s))

\* clean(text): None counts as the empty string
clean(text) == IF text = None THEN <<>> ELSE Strip(CollapseSpace(text))

\* all sequences of at most n elements of S
SeqsUpTo(S, n) == UNION {{SubSeq(f, 1, k) : f \in [1..k -> S]} : k \in 0..n}

(***************************************************************************)
(* detect_shape                                                            *)
(***************************************************************************)
SHAPE_RULES == <<
    [shape |-> "sphere",   keys |-> << <<"b","a","l","l">>, <<"r","o","u","n","d">>, <<"s","p","h","e","r","e">>, <<"e","g","g">> >>],
    [shape |-> "cube",     keys |-> << <<"c","u","b","e">>, <<"b","o","x">>, <<"s","q","u","a","r","e"," ","p","l","u","s","h">>, <<"b","l","o","c","k">> >>],
    [shape |-> "cone",     keys |-> << <<"c","o","n","e">>, <<"t","r","e","e">>, <<"h","a","t"," ","c","o","n","e">> >>],
    [shape |-> "pyramid",  keys |-> << <<"p","y","r","a","m","i","d">>, <<"t","e","t","r","a">> >>],
    [shape |-> "cylinder", keys |-> << <<"t","u","b","e">>, <<"s","o","c","k">>, <<"s","l","e","e","v","e">>, <<"l","e","g"," ","w","a","r","m","e","r">> >>],
    [shape |-> "softie",   keys |-> << <<"t","o","y">>, <<"a","m","i","g","u","r","u","m","i">>, <<"s","o","f","t","i","e">>, <<"p","l","u","s","h">> >>] >>

\* any(k in text for k in keys)
AnyKeyIn(keys, text) == \E k \in 1..Len(keys) : Contains(text, keys[k])

RECURSIVE DetectFrom(_, _)
\* the for loop of detect_shape from the i-th pair on: the first pair with a
\* keyword in the text returns its shape
DetectFrom(text, i) ==
    IF i > Len(SHAPE_RULES) THEN "unknown"
    ELSE IF AnyKeyIn(SHAPE_RULES[i].keys, text) THEN SHAPE_RULES[i].shape
    ELSE DetectFrom(text, i + 1)

RECURSIVE DetectLast(_, _)
\* a loop that keeps overwriting: the last matching pair wins
DetectLast(text, i) ==
    IF i > Len(SHAPE_RULES) THEN "unknown"
    ELSE LET rest == DetectLast(text, i + 1)
         IN  IF rest # "unknown" THEN rest
             ELSE IF AnyKeyIn(SHAPE_RULES[i].keys, text) THEN SHAPE_RULES[i].shape
             ELSE "unknown"

detect_shape_last(text) == DetectLast(Lower(text), 1)

detect_shape(text) == DetectFrom(Lower(text), 1)

(***************************************************************************)
(* normalize_needle                                                        *)
(*                                                                         *)
(* A Python float parsed from a decimal literal is kept exactly, as the    *)
(* pair [n, d] standing for n / 10^d with no trailing zero in the          *)
(* fraction.  The table values are kept in hundredths of a millimetre.     *)
(***************************************************************************)
US_NEEDLES == <<
    [us |-> <<"0">>,    mm |-> 200], [us |-> <<"1">>,  mm |-> 225],
    [us |-> <<"2">>,    mm |-> 275], [us |-> <<"3">>,  mm |-> 325],
    [us |-> <<"4">>,    mm |-> 350], [us |-> <<"5">>,  mm |-> 375],
    [us |-> <<"6">>,    mm |-> 400], [us |-> <<"7">>,  mm |-> 450],
    [us |-> <<"8">>,    mm |-> 500], [us |-> <<"9">>,  mm |-> 550],
    [us |-> <<"1","0">>,   mm |-> 600], [us |-> <<"1","0",".","5">>, mm |-> 650],
    [us |-> <<"1","1">>,   mm |-> 800], [us |-> <<"1","3">>, mm |-> 900],
    [us |-> <<"1","5">>,   mm |-> 1000] >>

Digits == <<"0","1","2","3","4","5","6","7","8","9">>

DigitVal(c) == (CHOOSE i \in 1..10 : Digits[i] = c) - 1

RECURSIVE Pow10(_)
Pow10(d) == IF d = 0 THEN 1 ELSE 10 * Pow10(d - 1)

RECURSIVE DigitsVal(_)
\* the number a string of digits spells ("" spells 0)
DigitsVal(s) ==
    IF s = <<>> THEN 0 ELSE 10 * DigitsVal(SubSeq(s, 1, Len(s) - 1)) + DigitVal(s[Len(s)])

RECURSIVE NatStr(_)
\* str(n) of a natural number
NatStr(n) == IF n < 10 THEN <<Digits[n + 1]>> ELSE NatStr(n \div 10) \o <<Digits[(n % 10) + 1]>>

RECURSIVE Canon(_)
\* drop the trailing zeros of the fraction: equal floats get equal pairs
Canon(x) ==
    IF x.d > 0 /\ x.n % 10 = 0 THEN Canon([n |-> x.n \div 10, d |-> x.d - 1]) ELSE x

\* float(s) for s matching \d+(\.\d+)?
ParseFloat(s) ==
    LET dot  == IF \E i \in 1..Len(s) : s[i] = "."
                THEN CHOOSE i \in 1..Len(s) : s[i] = "." ELSE Len(s) + 1
        ip   == SubSeq(s, 1, dot - 1)
        fp   == SubSeq(s, dot + 1, Len(s))
    IN  Canon([n |-> DigitsVal(ip \o fp), d |-> Len(fp)])

\* the float of a table entry
TableFloat(h) == Canon([n |-> h, d |-> 2])

RECURSIVE ZeroPad(_, _)
ZeroPad(s, w) == IF Len(s) >= w THEN s ELSE ZeroPad(<<"0">> \o s, w)

\* f"{x}" of a float in [0.0001, 1e16): the shortest decimal that reads back,
\* always with a fraction ("5.0", "3.62")
FloatRepr(x) ==
    NatStr(x.n \div Pow10(x.d)) \o <<".">> \o
    (IF x.d = 0 THEN <<"0">> ELSE ZeroPad(NatStr(x.n % Pow10(x.d)), x.d))

Abs(a) == IF a < 0 THEN 0 - a ELSE a

\* |v - mm| in units of 10^-(d+2), v a table value in hundredths
Dist(v, mm) == Abs(v * Pow10(mm.d) - mm.n * 100)

\* 0.15 in the same units
Tol(mm) == 15 * Pow10(mm.d)

\* The pairs <<table value, mm>> in hundredths at decimal distance exactly
\* 0.15 for which abs(v - mm) < 0.15 is True in IEEE-754 double arithmetic
\* (the subtraction of the two nearest doubles rounds below the double 0.15).
FloatTieBelow == {
    <<200, 185>>, <<200, 215>>, <<225, 210>>, <<225, 240>>, <<275, 260>>,
    <<275, 290>>, <<325, 310>>, <<325, 340>>, <<350, 335>>, <<350, 365>>,
    <<375, 360>>, <<375, 390>>, <<400, 385>> }

\* abs(v - mm) < 0.15 as the interpreter evaluates it
Within(v, mm) ==
    IF Dist(v, mm) = Tol(mm)
    THEN <<v, mm.n * Pow10(2 - mm.d)>> \in FloatTieBelow
    ELSE Dist(v, mm) < Tol(mm)

RECURSIVE DigitRunEnd(_, _)
\* the index after the longest run of \d starting at i
DigitRunEnd(s, i) == IF i <= Len(s) /\ IsDigit(s[i]) THEN DigitRunEnd(s, i + 1) ELSE i

RECURSIVE SpaceRunEnd(_, _)
\* the index after the longest run of \s starting at i
SpaceRunEnd(s, i) == IF i <= Len(s) /\ IsSpace(s[i]) THEN SpaceRunEnd(s, i + 1) ELSE i

RECURSIVE NumDotRunEnd(_, _)
\* the index after the longest run of [\d\.] starting at i
NumDotRunEnd(s, i) ==
    IF i <= Len(s) /\ (IsDigit(s[i]) \/ s[i] = ".") THEN NumDotRunEnd(s, i + 1) ELSE i

\* (\d+(\.\d+)?)\s*mm tried at position i.  The greedy choice is the only
\* one that can succeed: a shorter digit run is followed by a digit, and
\* without the optional fraction the next character is ".".
MmMatchAt(s, i) ==
    LET j == DigitRunEnd(s, i)
        k == IF j <= Len(s) /\ s[j] = "." /\ DigitRunEnd(s, j + 1) > j + 1
             THEN DigitRunEnd(s, j + 1) ELSE j
        w == SpaceRunEnd(s, k)
    IN  IF j > i /\ w + 1 <= Len(s) /\ s[w] = "m" /\ s[w + 1] = "m"
        THEN [ok |-> TRUE, group |-> SubSeq(s, i, k - 1), end |-> w + 2]
        ELSE [ok |-> FALSE, group |-> <<>>, end |-> i]

\* us\s*([\d\.]+) tried at position i
UsMatchAt(s, i) ==
    LET w == SpaceRunEnd(s, i + 2)
        e == NumDotRunEnd(s, w)
    IN  IF i + 1 <= Len(s) /\ s[i] = "u" /\ s[i + 1] = "s" /\ e > w
        THEN [ok |-> TRUE, group |-> SubSeq(s, w, e - 1), end |-> e]
        ELSE [ok |-> FALSE, group |-> <<>>, end |-> i]

RECURSIVE FindMm(_, _)
\* re.findall of the metric pattern, first group, scanning from i
FindMm(s, i) ==
    IF i > Len(s) THEN <<>>
    ELSE LET m == MmMatchAt(s, i)
         IN  IF m.ok THEN <<m.group>> \o FindMm(s, m.end) ELSE FindMm(s, i + 1)

RECURSIVE FindUs(_, _)
\* re.findall of the US pattern, scanning from i
FindUs(s, i) ==
    IF i > Len(s) THEN <<>>
    ELSE LET m == UsMatchAt(s, i)
         IN  IF m.ok THEN <<m.group>> \o FindUs(s, m.end) ELSE FindUs(s, i + 1)

\* mm_vals and us_vals of the lower-cased text
mm_vals(val) == LET ms == FindMm(val, 1) IN [i \in 1..Len(ms) |-> ParseFloat(ms[i])]
us_vals(val) == FindUs(val, 1)

\* the inner loop over US_NEEDLES.items(): every entry within the tolerance
\* overwrites us, so the last such entry of the table stays (0 for None)
UsFor(mm) ==
    LET hit == {k \in 1..Len(US_NEEDLES) : Within(US_NEEDLES[k].mm, mm)}
    IN  IF hit = {} THEN 0 ELSE CHOOSE k \in hit : \A q \in hit : q <= k

\* f"US {us} ({mm} mm)" and f"{mm} mm" and f"US {us}"
FmtUsMm(us, mm) == <<"U","S"," ">> \o us \o <<" ","(">> \o FloatRepr(mm) \o <<" ","m","m",")">>
FmtMm(mm)       == FloatRepr(mm) \o <<" ","m","m">>
FmtUs(us)       == <<"U","S"," ">> \o us

\* the fragment appended for one metric value
MmFragment(mm) ==
    IF UsFor(mm) # 0 THEN FmtUsMm(US_NEEDLES[UsFor(mm)].us, mm) ELSE FmtMm(mm)

\* US_NEEDLES.get(us): the index of the entry with that key, 0 for None
TableGet(us) ==
    IF \E k \in 1..Len(US_NEEDLES) : US_NEEDLES[k].us = us
    THEN CHOOSE k \in 1..Len(US_NEEDLES) : US_NEEDLES[k].us = us ELSE 0

\* the fragment appended for one US value
UsFragment(us) ==
    IF TableGet(us) # 0 THEN FmtUsMm(us, TableFloat(US_NEEDLES[TableGet(us)].mm))
    ELSE FmtUs(us)

\* the list results
needle_results(val) ==
    LET mms == mm_vals(val)
        uss == us_vals(val)
    IN  [i \in 1..Len(mms) |-> MmFragment(mms[i])] \o
        [i \in 1..Len(uss) |-> UsFragment(uss[i])]

normalize_needle(val) ==
    IF val = <<>> \/ val = None THEN <<>>
    ELSE LET v == Lower(val)
             results == needle_results(v)
         IN  IF results # <<>> THEN Join(<<","," ">>, results) ELSE v

(***************************************************************************)
(* extract_download_links                                                  *)
(*                                                                         *)
(* The anchors of a document are the sequence of their href attributes in  *)
(* document order, None for an anchor without one.                         *)
(***************************************************************************)
LinkWords == << <<".","p","d","f">>, <<"d","o","w","n","l","o","a","d">>, <<"p","a","t","t","e","r","n">> >>

\* the two nested conditions under which an href is appended to urls
LinkAccepted(href) ==
    /\ \E x \in 1..Len(LinkWords) : Contains(Lower(href), LinkWords[x])
    /\ (Contains(href, <<"r","a","v","e","l","r","y">>) \/ StartsWith(href, <<"h","t","t","p">>))

\* soup.find_all("a", href=True)
AnchorsWithHref(anchors) == SelectSeq(anchors, LAMBDA h : h # None)

\* the list urls after the loop
urls_of(anchors) == SelectSeq(AnchorsWithHref(anchors), LinkAccepted)

SeqRange(s) == {s[i] : i \in 1..Len(s)}

\* list(S) for a set S: the elements once each, in an order the set's
\* hashing decides
ListsOfSet(S) ==
    {SubSeq(f, 1, Len(f)) :
        f \in {g \in [1..Cardinality(S) -> S] :
                  \A i, j \in 1..Cardinality(S) : g[i] = g[j] => i = j}}

\* the lists extract_download_links may return: list(set(urls))
extract_download_links(anchors) == ListsOfSet(SeqRange(urls_of(anchors)))

(***************************************************************************)
(* parse_html                                                              *)
(*                                                                         *)
(* A parsed page (soup) is the record                                      *)
(*   jsonld  : what the ld+json script yields: ok = FALSE when there is no *)
(*             script or json.loads / j.get raises, else the value of      *)
(*             j.get("description") (None when the key is missing)         *)
(*   fields  : the blocks soup.select(...) returns, in document order;     *)
(*             a block is [lab, val]: lab the text of its label tag or     *)
(*             None, val Nothing or Some(children of div.value), a child   *)
(*             being [span |-> is it a <span>, text |-> its text]          *)
(*   notes   : Nothing, or Some(the text nodes of div.notes)               *)
(*   anchors : the href of every <a>, None for an anchor without href      *)
(* The record keys pattern_page, name, designer and attributes are written *)
(* by parse_html and read by nothing in it; they are not part of the       *)
(* model.                                                                  *)
(***************************************************************************)
Nothing == <<>>
Some(x) == <<x>>

\* a dict as a function on its keys
Put(d, k, v) == [x \in (DOMAIN d) \cup {k} |-> IF x = k THEN v ELSE d[x]]
Has(d, k)    == k \in DOMAIN d
\* d.get(k, default)
Get(d, k, default) == IF k \in DOMAIN d THEN d[k] ELSE default
EmptyDict == [x \in {} |-> <<>>]

TECHNIQUES == <<
    <<"s","h","o","r","t"," ","r","o","w","s">>, <<"i","n","c","r","e","a","s","e","s">>, <<"d","e","c","r","e","a","s","e","s">>,
    <<"w","o","r","k","e","d"," ","f","l","a","t">>, <<"w","o","r","k","e","d"," ","i","n"," ","t","h","e"," ","r","o","u","n","d">>, <<"t","o","p","-","d","o","w","n">>, <<"b","o","t","t","o","m","-","u","p">>,
    <<"m","o","d","u","l","a","r">>, <<"s","e","a","m","e","d">>, <<"p","i","c","k"," ","u","p"," ","s","t","i","t","c","h","e","s">>, <<"g","r","a","f","t","i","n","g">> >>

\* the characters of the technique phrases in code-point order
CodePoints == <<" ", "-", "a","b","c","d","e","f","g","h","i","j","k","l","m",
                "n","o","p","q","r","s","t","u","v","w","x","y","z">>
Ord(c) == CHOOSE i \in 1..Len(CodePoints) : CodePoints[i] = c

RECURSIVE StrLess(_, _)
\* a < b for two str
StrLess(a, b) ==
    IF b = <<>> THEN FALSE
    ELSE IF a = <<>> THEN TRUE
    ELSE IF a[1] = b[1] THEN StrLess(Tail(a), Tail(b))
    ELSE Ord(a[1]) < Ord(b[1])

RECURSIVE Sorted(_)
\* sorted(S) for a set S of str
Sorted(S) ==
    IF S = {} THEN <<>>
    ELSE LET m == CHOOSE x \in S : \A y \in S \ {x} : StrLess(x, y)
         IN  <<m>> \o Sorted(S \ {m})

\* the phrases found, in the order of the table instead of sorted
techniques_of_unsorted(text) == SelectSeq(TECHNIQUES, LAMBDA t : Contains(text, t))

\* sorted({t for t in TECHNIQUES if t in text})
techniques_of(text) ==
    Sorted({TECHNIQUES[i] : i \in {j \in 1..Len(TECHNIQUES) : Contains(text, TECHNIQUES[j])}})

\* The external call GoogleTranslator(...).translate(text): it returns a
\* text (ok) or raises (not ok).  translate_to_english catches the exception
\* and returns its argument.
translate_to_english_empty(text, outcome) == IF outcome.ok THEN outcome.text ELSE <<>>

translate_to_english(text, outcome) == IF outcome.ok THEN outcome.text ELSE text

\* val.text: the text of all children, concatenated
ValText(children) == Concat([i \in 1..Len(children) |-> children[i].text])

\* [clean(lang.text) for lang in val.find_all("span")]
SpanTexts(children) ==
    LET spans == SelectSeq(children, LAMBDA c : c.span)
    IN  [i \in 1..Len(spans) |-> clean(spans[i].text)]

\* if not lab or not val: continue
Skipped(f) == f.lab = None \/ f.val = Nothing

\* key and v of a block that is not skipped
FieldKey(f)  == Lower(clean(f.lab))
FieldText(f) == clean(ValText(f.val[1]))

\* a chain of elif: only the first matching rule takes the value
ApplyField_elif(res, ys, f) ==
    IF Skipped(f) THEN [result |-> res, yarns |-> ys]
    ELSE LET key == FieldKey(f)
             v   == FieldText(f)
         IN  IF Contains(key, <<"c","r","a","f","t">>) THEN [result |-> Put(res, "craft", v), yarns |-> ys]
             ELSE IF Contains(key, <<"c","a","t","e","g","o","r","y">>)
                  THEN [result |-> Put(res, "category", v), yarns |-> ys]
             ELSE IF Contains(key, <<"n","e","e","d","l","e">>)
                  THEN [result |-> Put(res, "needle_size", normalize_needle(v)), yarns |-> ys]
             ELSE IF Contains(key, <<"y","a","r","n">>) THEN [result |-> res, yarns |-> Append(ys, v)]
             ELSE IF Contains(key, <<"s","i","z","e","s"," ","a","v","a","i","l","a","b","l","e">>)
                  THEN [result |-> Put(res, "sizes_available", v), yarns |-> ys]
             ELSE IF Contains(key, <<"l","a","n","g","u","a","g","e","s">>)
                  THEN [result |-> Put(res, "languages", SpanTexts(f.val[1])), yarns |-> ys]
             ELSE [result |-> res, yarns |-> ys]

\* if cond: d[k] = v
SetIf(cond, d, k, v) == IF cond THEN Put(d, k, v) ELSE d

\* the six independent if statements on key, in program order
ApplyRules(res, ys, key, v, spans) ==
    [result |->
        SetIf(Contains(key, <<"l","a","n","g","u","a","g","e","s">>),
          SetIf(Contains(key, <<"s","i","z","e","s"," ","a","v","a","i","l","a","b","l","e">>),
            SetIf(Contains(key, <<"n","e","e","d","l","e">>),
              SetIf(Contains(key, <<"c","a","t","e","g","o","r","y">>),
                SetIf(Contains(key, <<"c","r","a","f","t">>), res, "craft", v),
                "category", v),
              "needle_size", normalize_needle(v)),
            "sizes_available", v),
          "languages", spans),
     yarns |-> IF Contains(key, <<"y","a","r","n">>) THEN Append(ys, v) ELSE ys]

\* one iteration of the loop over fields
ApplyField(res, ys, f) ==
    IF Skipped(f) THEN [result |-> res, yarns |-> ys]
    ELSE ApplyRules(res, ys, FieldKey(f), FieldText(f), SpanTexts(f.val[1]))

\* the values result["suggested_yarn"] may take: list(set(yarns)), set only
\* when yarns is not empty
yarns_first_only(ys) == {<<ys[1]>>}

suggested_yarn_of(ys) == ListsOfSet(SeqRange(ys))

\* raw_text = clean(notes_block.get_text(separator=" "))
raw_text_of(notes) == clean(Join(<<" ">>, notes))

\* text = (result.get("description", "") + " " + result.get("full_text", "")).lower()
classify_text(res) ==
    Lower(Get(res, "description", <<>>) \o <<" ">> \o Get(res, "full_text", <<>>))

NoCall == [called |-> FALSE, ok |-> FALSE, text |-> <<>>]

\* the English texts the translation service may answer with
TransTexts == { <<"a"," ","r","o","u","n","d"," ","B","a","l","l">>, <<"s","e","a","m","e","d",","," ","w","o","r","k","e","d"," ","f","l","a","t">>, <<"R","o","w","s",","," ","G","r","a","f","t","i","n","g">> }

\* what the translation call may do for a given text
TransOutcomes(text) ==
    {[called |-> TRUE, ok |-> TRUE, text |-> t] : t \in TransTexts \cup {text}}
        \cup {[called |-> TRUE, ok |-> FALSE, text |-> <<>>]}

\* ---- the stages of parse_html as functions of the record so far

\* lines 102-110: the ld+json script
jsonld_stage(res, doc) ==
    IF doc.jsonld.ok THEN Put(res, "description", clean(doc.jsonld.description)) ELSE res

RECURSIVE fields_stage(_, _, _)
\* lines 115-133: the loop over fields
fields_stage(res, ys, fields) ==
    IF fields = <<>> THEN [result |-> res, yarns |-> ys]
    ELSE fields_stage(ApplyField(res, ys, Head(fields)).result,
                      ApplyField(res, ys, Head(fields)).yarns, Tail(fields))

\* lines 135-136: the records after if yarns: result["suggested_yarn"] = ...
yarns_stage(res, ys) ==
    IF ys # <<>> THEN {Put(res, "suggested_yarn", l) : l \in suggested_yarn_of(ys)}
    ELSE {res}

\* the outcomes of the translation call parse_html may meet on a page
NotesOutcomes(doc) ==
    IF doc.notes = Nothing THEN {NoCall} ELSE TransOutcomes(raw_text_of(doc.notes[1]))

\* a record that always carries full_text, empty when there are no notes
notes_stage_always(res, doc, o) ==
    IF doc.notes = Nothing THEN Put(res, "full_text", <<>>)
    ELSE Put(res, "full_text", translate_to_english(raw_text_of(doc.notes[1]), o))

\* lines 147-151: the notes block and its translation
notes_stage(res, doc, o) ==
    IF doc.notes = Nothing THEN res
    ELSE Put(res, "full_text", translate_to_english(raw_text_of(doc.notes[1]), o))

\* lines 154-156: techniques and shape
classify_stage(res) ==
    Put(Put(res, "techniques", techniques_of(classify_text(res))),
        "shape", detect_shape(classify_text(res)))

\* line 157: the records after result["download_links"] = ...
links_stage(res, doc) ==
    {Put(res, "download_links", l) : l \in extract_download_links(doc.anchors)}

\* the records parse_html may return for a document that can be read
parse_html(doc) ==
    UNION { UNION { links_stage(classify_stage(notes_stage(r, doc, o)), doc) :
                      o \in NotesOutcomes(doc) } :
            r \in yarns_stage(fields_stage(jsonld_stage(EmptyDict, doc), <<>>, doc.fields).result,
                              fields_stage(jsonld_stage(EmptyDict, doc), <<>>, doc.fields).yarns) }

\* ---- parse_html step by step, in program order

\* what one iteration of the loop over fields does, in order: it reads the
\* block, and calls normalize_needle when the label has "needle"
FieldEvents(f) ==
    IF ~Skipped(f) /\ Contains(FieldKey(f), <<"n","e","e","d","l","e">>) THEN <<"field", "needle">>
    ELSE <<"field">>

\* link extraction placed ahead of the notes block
LinksStep_early ==
    /\ pc = "notes"
    /\ \A i \in 1..Len(steps) : steps[i] # "links"
    /\ result' \in links_stage(result, page)
    /\ steps' = Append(steps, "links")
    /\ UNCHANGED <<page, pc, yarns, fi, trans, fnVars, mainVars>>

LoadJsonLd ==
    /\ pc = "jsonld"
    /\ result' = jsonld_stage(result, page)
    /\ pc' = "fields"
    /\ steps' = Append(steps, "jsonld")
    /\ UNCHANGED <<page, yarns, fi, trans, fnVars, mainVars>>

\* one iteration of for f in fields
FieldStep ==
    /\ pc = "fields"
    /\ fi < Len(page.fields)
    /\ result' = ApplyField(result, yarns, page.fields[fi + 1]).result
    /\ yarns' = ApplyField(result, yarns, page.fields[fi + 1]).yarns
    /\ fi' = fi + 1
    /\ steps' = steps \o FieldEvents(page.fields[fi + 1])
    /\ UNCHANGED <<page, pc, trans, fnVars, mainVars>>

\* the loop is over: if yarns: ...
CommitYarns ==
    /\ pc = "fields"
    /\ fi = Len(page.fields)
    /\ result' \in yarns_stage(result, yarns)
    /\ pc' = "notes"
    /\ steps' = Append(steps, "yarns")
    /\ UNCHANGED <<page, yarns, fi, trans, fnVars, mainVars>>

NotesStep ==
    /\ pc = "notes"
    /\ \E o \in NotesOutcomes(page) :
          /\ trans' = o
          /\ result' = notes_stage(result, page, o)
    /\ pc' = "classify"
    /\ steps' = Append(steps, "notes")
    /\ UNCHANGED <<page, yarns, fi, fnVars, mainVars>>

ClassifyStep ==
    /\ pc = "classify"
    /\ result' = classify_stage(result)
    /\ pc' = "links"
    /\ steps' = Append(steps, "classify")
    /\ UNCHANGED <<page, yarns, fi, trans, fnVars, mainVars>>

\* download links, then return result
LinksStep ==
    /\ pc = "links"
    /\ result' \in links_stage(result, page)
    /\ pc' = "done"
    /\ steps' = Append(steps, "links")
    /\ UNCHANGED <<page, yarns, fi, trans, fnVars, mainVars>>

(***************************************************************************)
(* parse_pattern_html (download-patterns.py): the category of a value      *)
(***************************************************************************)
\* tag.get_text(strip=True): every text node stripped, the empty ones
\* dropped, the rest concatenated
GetTextStrip(children) ==
    Concat([i \in 1..Len(children) |-> Strip(children[i].text)])

\* " → ".join([s.get_text(strip=True) for s in spans if s.get_text(strip=True)])
\* when the value has spans, val.get_text(strip=True) otherwise
category_of(children) ==
    IF SelectSeq(children, LAMBDA c : c.span) # <<>>
    THEN Join(<<" ", ARROW, " ">>,
              SelectSeq([i \in 1..Len(children) |->
                            IF children[i].span THEN Strip(children[i].text) ELSE <<>>],
                        LAMBDA t : t # <<>>))
    ELSE GetTextStrip(children)

(***************************************************************************)
(* main                                                                    *)
(*                                                                         *)
(* The input directory is a function from the names os.listdir returns to  *)
(* what open() finds there: a readable document, or Unreadable when open   *)
(* raises (a directory of that name, a permission error).                  *)
(***************************************************************************)
Unreadable == [readable |-> FALSE]
Readable(doc) == [readable |-> TRUE, doc |-> doc]

\* the characters of the file names in code-point order
NameCodePoints == <<".", "B", "a","b","c","d","e","f","g","h","i","j","k","l","m",
                    "n","o","p","q","r","s","t","u","v","w","x","y","z">>
NameOrd(c) == CHOOSE i \in 1..Len(NameCodePoints) : NameCodePoints[i] = c

RECURSIVE NameLess(_, _)
\* a < b for two file names
NameLess(a, b) ==
    IF b = <<>> THEN FALSE
    ELSE IF a = <<>> THEN TRUE
    ELSE IF a[1] = b[1] THEN NameLess(Tail(a), Tail(b))
    ELSE NameOrd(a[1]) < NameOrd(b[1])

RECURSIVE SortedNames(_)
\* sorted(S) for a set S of file names
SortedNames(S) ==
    IF S = {} THEN <<>>
    ELSE <<CHOOSE x \in S : \A y \in S \ {x} : NameLess(x, y)>> \o
         SortedNames(S \ {CHOOSE x \in S : \A y \in S \ {x} : NameLess(x, y)})

RECURSIVE Replace(_, _, _)
\* s.replace(old, new): every occurrence, left to right, without overlap
Replace(s, old, new) ==
    IF Len(s) < Len(old) THEN s
    ELSE IF SubSeq(s, 1, Len(old)) = old
         THEN new \o Replace(SubSeq(s, Len(old) + 1, Len(s)), old, new)
         ELSE <<s[1]>> \o Replace(Tail(s), old, new)

\* only the last suffix replaced
ReplaceSuffix(s, old, new) ==
    IF EndsWith(s, old) THEN SubSeq(s, 1, Len(s) - Len(old)) \o new ELSE s

\* file.replace(".html", ".json")
out_name(file) == Replace(file, <<".","h","t","m","l">>, <<".","j","s","o","n">>)

\* sorted(f for f in os.listdir(HTML_DIR) if f.endswith(".html"))
html_files_of(dir) == SortedNames({f \in DOMAIN dir : EndsWith(f, <<".","h","t","m","l">>)})

\* lines 165-169: before the loop
MainStart ==
    /\ mpc = "start"
    /\ all_patterns' = <<>>
    /\ html_files' = html_files_of(listing)
    /\ mpc' = "loop"
    /\ UNCHANGED <<listing, idx, out_files, master, fnVars, pageVars>>

\* lines 171-181: one iteration of the loop, parse_html returning data
ProcessPage ==
    /\ mpc = "loop"
    /\ idx < Len(html_files)
    /\ listing[html_files[idx + 1]].readable
    /\ \E data \in parse_html(listing[html_files[idx + 1]].doc) :
          /\ out_files' = Put(out_files, out_name(html_files[idx + 1]), data)
          /\ all_patterns' = Append(all_patterns, data)
    /\ idx' = idx + 1
    /\ UNCHANGED <<listing, html_files, master, mpc, fnVars, pageVars>>

\* lines 172-173: open() raises in parse_html; nothing in main catches it, so
\* the exception ends the run
PageRaises ==
    /\ mpc = "loop"
    /\ idx < Len(html_files)
    /\ ~listing[html_files[idx + 1]].readable
    /\ mpc' = "crashed"
    /\ UNCHANGED <<listing, html_files, idx, all_patterns, out_files, master,
                   fnVars, pageVars>>

\* lines 184-185: after the loop
WriteMaster ==
    /\ mpc = "loop"
    /\ idx = Len(html_files)
    /\ master' = Append(master, all_patterns)
    /\ mpc' = "done"
    /\ UNCHANGED <<listing, html_files, idx, all_patterns, out_files, fnVars, pageVars>>

(***************************************************************************)
(* Calls of the pure helpers on bounded inputs.                            *)
(***************************************************************************)
ShapeFrags == { <<"b","a","l","l">>, <<"B","o","x">>, <<"s","q","u","a","r","e"," ","p","l","u","s","h">>, <<"h","a","t"," ","c","o","n","e">>, <<"T","r","e","e">>,
                <<"t","o","y">>, <<"s","o","c","k">>, <<"e","g">>, <<"g">>, <<" ">>, <<"k","n","i","t">> }

NeedleFrags == { <<"4",".","5">>, <<"3",".","6","2">>, <<"5">>, <<"7">>, <<"2",".","1","5">>, <<"1","0",".","5">>, <<"8">>,
                 <<" ">>, <<"m","m">>, <<"U","S">>, <<"S","i","z","e"," ","G">>, <<","," ">> }

\* hrefs: a prefix, a host and a path
HrefPrefixes == { <<>>, <<"h","t","t","p",":","/","/">>, <<"H","T","T","P",":","/","/">>, <<"h","t","t","p","d","o","c","s","/">> }
HrefHosts    == { <<"x",".","o","r","g","/">>, <<"w","w","w",".","r","a","v","e","l","r","y",".","c","o","m","/">> }
HrefPaths    == { <<"a","b","o","u","t">>, <<"D","o","w","n","l","o","a","d","/","1">>, <<"a",".","P","D","F">> }
Hrefs == {p \o h \o q : p \in HrefPrefixes, h \in HrefHosts, q \in HrefPaths}

idlePage == /\ page = [jsonld |-> [ok |-> FALSE, description |-> None], fields |-> <<>>,
                        notes |-> <<>>, anchors |-> <<>>]
            /\ result = <<>> /\ yarns = <<>> /\ fi = 0
            /\ pc = "idle" /\ trans = NoCall /\ steps = <<>>
idleMain == /\ listing = <<>> /\ html_files = <<>> /\ idx = 0 /\ all_patterns = <<>>
            /\ out_files = <<>> /\ master = <<>> /\ mpc = "idle"
idleFn   == fn = "none" /\ arg = <<>> /\ ret = <<>>

InitFn == idleFn /\ idlePage /\ idleMain

CallDetectShape ==
    /\ fn = "none"
    /\ \E fs \in SeqsUpTo(ShapeFrags, MaxShapeFrags) :
          /\ arg' = Concat(fs)
          /\ ret' = detect_shape(Concat(fs))
    /\ fn' = "detect_shape"
    /\ UNCHANGED <<pageVars, mainVars>>

CallNormalizeNeedle ==
    /\ fn = "none"
    /\ \E fs \in SeqsUpTo(NeedleFrags, MaxNeedleFrags) :
          /\ arg' = Concat(fs)
          /\ ret' = normalize_needle(Concat(fs))
    /\ fn' = "normalize_needle"
    /\ UNCHANGED <<pageVars, mainVars>>

CallExtractDownloadLinks ==
    /\ fn = "none"
    /\ \E as \in SeqsUpTo(Hrefs \cup {None}, MaxAnchors) :
          /\ arg' = as
          /\ ret' \in extract_download_links(as)
    /\ fn' = "extract_download_links"
    /\ UNCHANGED <<pageVars, mainVars>>

NextFn == CallDetectShape \/ CallNormalizeNeedle \/ CallExtractDownloadLinks

SpecFn == InitFn /\ [][NextFn]_vars

(***************************************************************************)
(* Runs of parse_html on bounded pages.                                    *)
(***************************************************************************)
Span(t) == [span |-> TRUE,  text |-> t]
Text(t) == [span |-> FALSE, text |-> t]

\* the children of a div.value
ValArrow   == << Span(<<"S","o","f","t","i","e","s">>), Text(<<" ",ARROW," ">>), Span(<<"O","t","h","e","r">>) >>
ValNoArrow == << Text(<<"\n"," ">>), Span(<<"S","o","f","t","i","e","s">>), Span(<<" ","O","t","h","e","r"," ">>), Text(<<"\n">>) >>
ValPlain   == << Text(<<" ","4",".","5"," "," ","M","M">>) >>
FieldLabels == { <<"C","r","a","f","t">>, <<"C","a","t","e","g","o","r","y">>, <<"N","e","e","d","l","e","\n"," ","s","i","z","e">>, <<"Y","a","r","n"," ","w","e","i","g","h","t">>,
                 <<"S","i","z","e","s"," ","a","v","a","i","l","a","b","l","e">>, <<"L","a","n","g","u","a","g","e","s">>, <<"C","r","a","f","t"," ","c","a","t","e","g","o","r","y">> }

\* every label with a value made of spans and with a plain value, a block
\* without a label tag and a block without a value tag
FieldBlocks ==
    {[lab |-> l, val |-> Some(v)] : l \in FieldLabels, v \in {ValArrow, ValPlain}}
        \cup {[lab |-> None, val |-> Some(ValPlain)], [lab |-> <<"C","r","a","f","t">>, val |-> Nothing]}

NoJsonLd == [ok |-> FALSE, description |-> None]

idlePageRest == /\ result = EmptyDict /\ yarns = <<>> /\ fi = 0 /\ pc = "jsonld"
                /\ trans = NoCall /\ steps = <<>>

\* ---- the field extractor alone (lines 102-136), many field blocks
InitFields ==
    /\ idleFn /\ idleMain /\ idlePageRest
    /\ page \in {[jsonld |-> NoJsonLd, fields |-> fs, notes |-> Nothing, anchors |-> <<>>] :
                    fs \in SeqsUpTo(FieldBlocks, MaxFields)}

NextFields == LoadJsonLd \/ FieldStep \/ CommitYarns

SpecFields == InitFields /\ [][NextFields]_vars

\* ---- the whole of parse_html, few field blocks
PageBlocks == { [lab |-> <<"C","a","t","e","g","o","r","y">>, val |-> Some(ValArrow)],
                [lab |-> <<"C","a","t","e","g","o","r","y">>, val |-> Some(ValNoArrow)],
                [lab |-> <<"N","e","e","d","l","e"," ","s","i","z","e">>, val |-> Some(ValPlain)] }

PageJsonLd == { NoJsonLd,
                [ok |-> TRUE, description |-> None],
                [ok |-> TRUE, description |-> <<"A"," "," ","B","o","x"," ","t","o","y">>],
                [ok |-> TRUE, description |-> <<"S","e","a","m","e","d"," "," ","S","H","O","R","T">>] }

PageNotes == { Nothing,
               Some(<< <<"B","o","l","a">>, <<"r","e","d","o","n","d","a","\n">> >>),
               Some(<< <<" ","S","h","o","r","t"," ","r","o","w","s",","," ","t","o","p","-","d","o","w","n"," ">> >>) }

PageAnchors == { <<>>,
                 << <<"h","t","t","p",":","/","/","x",".","o","r","g","/","a",".","P","D","F">>, None, <<"h","t","t","p",":","/","/","x",".","o","r","g","/","a",".","P","D","F">> >>,
                 << <<"/","a","b","o","u","t">>, <<"w","w","w",".","r","a","v","e","l","r","y",".","c","o","m","/","D","o","w","n","l","o","a","d","/","1">>, <<"h","t","t","p",":","/","/","x",".","o","r","g","/","a",".","P","D","F">> >> }

InitPage ==
    /\ idleFn /\ idleMain /\ idlePageRest
    /\ page \in {[jsonld |-> j, fields |-> fs, notes |-> n, anchors |-> a] :
                    j \in PageJsonLd, fs \in SeqsUpTo(PageBlocks, MaxPageFields),
                    n \in PageNotes, a \in PageAnchors}

NextPage == LoadJsonLd \/ FieldStep \/ CommitYarns \/ NotesStep \/ ClassifyStep \/ LinksStep

SpecPage == InitPage /\ [][NextPage]_vars

(***************************************************************************)
(* Runs of main on bounded directories.                                    *)
(***************************************************************************)
FileNames == { <<"a",".","h","t","m","l">>, <<"b",".","h","t","m","l">>, <<"B",".","h","t","m","l">>, <<"a",".","h","t","m","l",".","h","t","m","l">>, <<"a",".","j","s","o","n",".","h","t","m","l">>,
               <<"c",".","t","x","t">> }

MainDocs == { [jsonld |-> [ok |-> TRUE, description |-> <<"A"," "," ","B","o","x"," ","t","o","y">>],
               fields |-> << [lab |-> <<"C","a","t","e","g","o","r","y">>, val |-> Some(ValArrow)] >>,
               notes  |-> Nothing,
               anchors |-> <<>>],
              [jsonld |-> NoJsonLd,
               fields |-> <<>>,
               notes  |-> Some(<< <<"B","o","l","a">>, <<"r","e","d","o","n","d","a","\n">> >>),
               anchors |-> << <<"h","t","t","p",":","/","/","x",".","o","r","g","/","a",".","P","D","F">> >>] }

Contents == {Unreadable} \cup {Readable(d) : d \in MainDocs}

InitMain ==
    /\ idleFn /\ idlePage
    /\ \E names \in SUBSET FileNames :
          /\ Cardinality(names) <= MaxFiles
          /\ listing \in [names -> Contents]
    /\ html_files = <<>> /\ idx = 0 /\ all_patterns = <<>>
    /\ out_files = EmptyDict /\ master = <<>> /\ mpc = "start"

NextMain == MainStart \/ ProcessPage \/ PageRaises \/ WriteMaster

SpecMain == InitMain /\ [][NextMain]_vars

(***************************************************************************)
(* Claims about the pure helpers (checked under SpecFn).                   *)
(***************************************************************************)
\* the priority order and the closed enum the classifier is documented with
ShapeOrder == <<"sphere", "cube", "cone", "pyramid", "cylinder", "softie">>
ShapeEnum  == {"sphere", "cube", "cone", "pyramid", "cylinder", "softie", "unknown"}

\* the keyword list the table gives a shape
KeysOf(sh) == SHAPE_RULES[CHOOSE i \in 1..Len(SHAPE_RULES) : SHAPE_RULES[i].shape = sh].keys

\* the positions of ShapeOrder whose keyword set matches the lower-cased text
ShapeMatches(text) ==
    {i \in 1..Len(ShapeOrder) : AnyKeyIn(KeysOf(ShapeOrder[i]), Lower(text))}

\* C1: detect_shape returns exactly one value of the closed enum: the shape
\* of the first pair in the order sphere, cube, cone, pyramid, cylinder,
\* softie one of whose keywords is a substring of the lower-cased text, and
\* unknown if no pair matches; a text matching several keyword sets gets the
\* earliest-priority shape.
C1_FirstMatchWins ==
    fn = "detect_shape" =>
        LET m == ShapeMatches(arg)
        IN  /\ ret \in ShapeEnum
            /\ (m = {} => ret = "unknown")
            /\ (m # {} => ret = ShapeOrder[CHOOSE i \in m : \A j \in m : i <= j])

\* a text with both "ball" and "box" (sphere and cube match) classified sphere
C1_Witness ==
    /\ fn = "detect_shape"
    /\ Contains(Lower(arg), <<"b","a","l","l">>) /\ Contains(Lower(arg), <<"b","o","x">>)
    /\ Cardinality(ShapeMatches(arg)) >= 2
    /\ ret = "sphere"

\* the table entries at the least exact distance from mm
Closest(mm) ==
    {k \in 1..Len(US_NEEDLES) :
        \A q \in 1..Len(US_NEEDLES) : Dist(US_NEEDLES[k].mm, mm) <= Dist(US_NEEDLES[q].mm, mm)}

\* the fragments the documented rule allows for one metric value: the
\* closest entry when its distance is below 0.15, the bare value otherwise
\* (at a distance of exactly 0.15 either form is accepted)
ClaimedMmFragments(mm) ==
    LET dmin == Dist(US_NEEDLES[CHOOSE k \in Closest(mm) : TRUE].mm, mm)
        asUs == {FmtUsMm(US_NEEDLES[k].us, mm) : k \in Closest(mm)}
    IN  IF dmin < Tol(mm) THEN asUs
        ELSE IF dmin = Tol(mm) THEN asUs \cup {FmtMm(mm)}
        ELSE {FmtMm(mm)}

\* C2: every metric value is emitted with the US size of the table entry
\* closest to it, provided that distance is strictly below 0.15, and as
\* "{mm} mm" otherwise; with two entries within 0.15 the closer is chosen.
C2_ClosestEntry ==
    fn = "normalize_needle" =>
        LET v   == Lower(arg)
            mms == mm_vals(v)
            res == needle_results(v)
        IN  \A i \in 1..Len(mms) : res[i] \in ClaimedMmFragments(mms[i])

\* C3: normalize_needle returns "" on empty input and, when neither the
\* metric nor the US pattern is recognised in a non-empty input, the input
\* itself, character for character, letter case included.
C3_Passthrough ==
    fn = "normalize_needle" =>
        /\ (arg = <<>> => ret = <<>>)
        /\ (arg # <<>> /\ mm_vals(Lower(arg)) = <<>> /\ us_vals(Lower(arg)) = <<>>
               => ret = arg)

\* an absolute web URL: a scheme http or https, in any letter case, and "://"
IsAbsoluteUrl(href) ==
    StartsWith(Lower(href), <<"h","t","t","p",":","/","/">>) \/ StartsWith(Lower(href), <<"h","t","t","p","s",":","/","/">>)

\* the rule as documented
LinkDocumented(href) ==
    /\ \E x \in 1..Len(LinkWords) : Contains(Lower(href), LinkWords[x])
    /\ (Contains(href, <<"r","a","v","e","l","r","y">>) \/ IsAbsoluteUrl(href))

\* C9: extract_download_links returns, without duplicates, exactly the hrefs
\* that contain (case-insensitively) ".pdf", "download" or "pattern" and that
\* contain "ravelry" or are absolute URLs.
C9_LinkRule ==
    fn = "extract_download_links" =>
        /\ \A i, j \in 1..Len(ret) : ret[i] = ret[j] => i = j
        /\ SeqRange(ret) = {h \in SeqRange(arg) : h # None /\ LinkDocumented(h)}

(***************************************************************************)
(* Claims about parse_html (checked under SpecFields and SpecPage).        *)
(***************************************************************************)
\* key k is neither set, changed nor removed by the step
KeyUnchanged(k) ==
    /\ Has(result', k) <=> Has(result, k)
    /\ Has(result, k) => result'[k] = result[k]

\* key k holds v after the step
KeySet(k, v) == Has(result', k) /\ result'[k] = v

\* the loop is about to visit a block that it does not skip
VisitsBlock ==
    /\ pc = "fields" /\ fi < Len(page.fields) /\ fi' = fi + 1
    /\ ~Skipped(page.fields[fi + 1])

\* the documented rules in order: the label substring and the key it feeds
\* ("yarns" stands for the list yarns)
FieldRules == <<
    [sub |-> <<"c","r","a","f","t">>,           key |-> "craft"],
    [sub |-> <<"c","a","t","e","g","o","r","y">>,        key |-> "category"],
    [sub |-> <<"n","e","e","d","l","e">>,          key |-> "needle_size"],
    [sub |-> <<"y","a","r","n">>,            key |-> "yarns"],
    [sub |-> <<"s","i","z","e","s"," ","a","v","a","i","l","a","b","l","e">>, key |-> "sizes_available"],
    [sub |-> <<"l","a","n","g","u","a","g","e","s">>,       key |-> "languages"] >>

\* the rules a block's label matches
MatchingRules(f) == {r \in 1..Len(FieldRules) : Contains(FieldKey(f), FieldRules[r].sub)}

\* what rule r stores for block f
RuleValue(r, f) ==
    IF FieldRules[r].key = "needle_size" THEN normalize_needle(FieldText(f))
    ELSE IF FieldRules[r].key = "languages" THEN SpanTexts(f.val[1])
    ELSE FieldText(f)

\* rule r took the value of block f in this step
RuleApplied(r, f) ==
    IF FieldRules[r].key = "yarns" THEN yarns' = Append(yarns, FieldText(f))
    ELSE KeySet(FieldRules[r].key, RuleValue(r, f))

\* the target of rule r is left alone in this step
RuleUntouched(r) ==
    IF FieldRules[r].key = "yarns" THEN yarns' = yarns
    ELSE KeyUnchanged(FieldRules[r].key)

\* C7 (as stated): when a block's label matches two or more rules, only the
\* last matching rule takes the block's value; the keys of the earlier
\* matching rules are not set or changed by that block.
C7_LastRuleOnly ==
    [][VisitsBlock =>
        LET f == page.fields[fi + 1]
            m == MatchingRules(f)
        IN  Cardinality(m) >= 2 =>
               \A r \in m : IF \A q \in m : q <= r THEN RuleApplied(r, f)
                            ELSE RuleUntouched(r)]_vars

\* C7 (amended): every rule the label matches takes the block's value, and
\* the targets of the rules it does not match are left alone.
C7_EveryMatchingRule ==
    [][VisitsBlock =>
        LET f == page.fields[fi + 1]
        IN  \A r \in 1..Len(FieldRules) :
               IF r \in MatchingRules(f) THEN RuleApplied(r, f) ELSE RuleUntouched(r)]_vars

\* a block labelled "Craft category" has just been visited and both craft
\* and category hold its value
C7_Witness ==
    /\ pc = "fields" /\ fi >= 1
    /\ ~Skipped(page.fields[fi])
    /\ {1, 2} \subseteq MatchingRules(page.fields[fi])
    /\ Has(result, "craft") /\ result["craft"] = FieldText(page.fields[fi])
    /\ Has(result, "category") /\ result["category"] = FieldText(page.fields[fi])

\* the positions of the blocks that are not skipped and match rule r
BlocksOf(r) ==
    {i \in 1..Len(page.fields) :
        ~Skipped(page.fields[i]) /\ r \in MatchingRules(page.fields[i])}

LastOf(S) == CHOOSE i \in S : \A j \in S : j <= i

\* key of rule r holds the value of the most recent matching block, and is
\* absent when no block matched
HoldsMostRecent(r) ==
    IF BlocksOf(r) = {} THEN ~Has(result, FieldRules[r].key)
    ELSE /\ Has(result, FieldRules[r].key)
         /\ result[FieldRules[r].key] = RuleValue(r, page.fields[LastOf(BlocksOf(r))])

\* suggested_yarn holds the values of every yarn block, once each
YarnAccumulated ==
    IF BlocksOf(4) = {} THEN ~Has(result, "suggested_yarn")
    ELSE /\ Has(result, "suggested_yarn")
         /\ SeqRange(result["suggested_yarn"]) = {FieldText(page.fields[i]) : i \in BlocksOf(4)}
         /\ \A i, j \in 1..Len(result["suggested_yarn"]) :
               result["suggested_yarn"][i] = result["suggested_yarn"][j] => i = j

\* languages holds the entries of every languages block
LanguagesAccumulated ==
    \A i \in BlocksOf(6) :
        /\ Has(result, "languages")
        /\ SeqRange(SpanTexts(page.fields[i].val[1])) \subseteq SeqRange(result["languages"])

FieldsDone == pc \notin {"idle", "jsonld", "fields"}

\* C8 (as stated): after all blocks, suggested_yarn holds the values of every
\* yarn block (deduplicated) and languages the entries of every languages
\* block; craft, category, needle_size and sizes_available hold the value of
\* the most recent matching block only.
C8_Accumulate ==
    FieldsDone =>
        /\ YarnAccumulated
        /\ LanguagesAccumulated
        /\ \A r \in {1, 2, 3, 5} : HoldsMostRecent(r)

\* C8 (amended): after all blocks, suggested_yarn holds the values of every
\* yarn block (deduplicated); languages, like craft, category, needle_size
\* and sizes_available, holds the value of the most recent matching block
\* only.
C8_YarnAccumulatesOthersLast ==
    FieldsDone =>
        /\ YarnAccumulated
        /\ \A r \in {1, 2, 3, 5, 6} : HoldsMostRecent(r)

\* two yarn blocks with different values, both in suggested_yarn, and two
\* languages blocks of which only the later one's entries are kept
C8_Witness ==
    /\ FieldsDone
    /\ Len(page.fields) = 2
    /\ \/ /\ BlocksOf(4) = {1, 2}
          /\ Len(result["suggested_yarn"]) = 2
       \/ /\ BlocksOf(6) = {1, 2}
          /\ result["languages"] = SpanTexts(page.fields[2].val[1])
          /\ result["languages"] # SpanTexts(page.fields[1].val[1])

\* the labels of a value made of spans, joined in order with " -> "
JoinedLabels(children) ==
    Join(<<" ", ARROW, " ">>,
         SelectSeq(SpanTexts(children), LAMBDA t : t # <<>>))

\* C10: when the category value of a page consists of nested labels (a
\* sequence of spans), the record's category is the labels joined in order
\* with " -> ", whatever lies between the spans.
C10_CategoryJoined ==
    (pc = "done" /\ BlocksOf(2) # {}) =>
        LET children == page.fields[LastOf(BlocksOf(2))].val[1]
        IN  SelectSeq(children, LAMBDA c : c.span) # <<>> =>
               /\ Has(result, "category")
               /\ result["category"] = JoinedLabels(children)
               /\ result["category"] = category_of(children)

\* C5: when the translation call fails, translate_to_english returns the
\* original text, so full_text equals the whitespace-collapsed notes text
\* and the page is processed through classification; when the call succeeds,
\* full_text is the translated text.
C5_TranslationFallback ==
    /\ trans.called =>
          /\ page.notes # Nothing
          /\ pc \in {"classify", "links", "done"}
          /\ Has(result, "full_text")
          /\ result["full_text"] =
                IF trans.ok THEN trans.text
                ELSE Strip(CollapseSpace(Join(<<" ">>, page.notes[1])))
    /\ (trans.called /\ pc \in {"links", "done"}) =>
          /\ Has(result, "techniques")
          /\ Has(result, "shape")
          /\ result["shape"] =
                detect_shape(Get(result, "description", <<>>) \o <<" ">> \o result["full_text"])

\* a page whose translation failed, fully processed: full_text is the notes
\* text, not one of the service's answers, and the record has its shape
C5_Witness ==
    /\ pc = "done"
    /\ trans.called /\ ~trans.ok
    /\ result["full_text"] # <<>>
    /\ result["full_text"] \notin TransTexts
    /\ result["full_text"] = raw_text_of(page.notes[1])
    /\ Has(result, "shape")

(***************************************************************************)
(* Claims about main (checked under SpecMain).                             *)
(***************************************************************************)
\* the run of main is over, normally or by an uncaught exception
MainEnded == mpc \in {"done", "crashed"}

\* the pages of the directory that can be read
ReadablePages == {f \in DOMAIN listing : EndsWith(f, <<".","h","t","m","l">>) /\ listing[f].readable}

\* C4: when parse_html raises for one page, the batch continues: every other
\* page still gets its per-page output and its record in the aggregate, and
\* the aggregate file is written at the end.
C4_BatchContinues ==
    MainEnded =>
        /\ Len(master) = 1
        /\ \A f \in ReadablePages :
              /\ Has(out_files, out_name(f))
              /\ \E k \in 1..Len(master[1]) : master[1][k] \in parse_html(listing[f].doc)
        /\ Len(master[1]) = Cardinality(ReadablePages)

\* the input name with the extension replaced
ExtensionReplaced(file) == ReplaceSuffix(file, <<".","h","t","m","l">>, <<".","j","s","o","n">>)

\* html_files holds every *.html name once, in ascending order
SortedListing ==
    /\ SeqRange(html_files) = {f \in DOMAIN listing : EndsWith(f, <<".","h","t","m","l">>)}
    /\ \A i, j \in 1..Len(html_files) : i < j => NameLess(html_files[i], html_files[j])

\* C6: pages are processed one at a time in ascending file-name order; each
\* page's record is written to its own per-page output, named by the input
\* name with the extension replaced, and appended to the aggregate, which is
\* at every point the sequence of the records of the pages processed so far;
\* the aggregate file is written exactly once, after every page, and then
\* holds one record per input page in that order.
C6_SequentialAggregate ==
    /\ mpc # "start" => SortedListing
    /\ Len(all_patterns) = idx
    /\ \A k \in 1..idx :
          /\ listing[html_files[k]].readable
          /\ all_patterns[k] \in parse_html(listing[html_files[k]].doc)
          /\ Has(out_files, ExtensionReplaced(html_files[k]))
          /\ out_files[ExtensionReplaced(html_files[k])] = all_patterns[k]
    /\ Len(master) <= 1
    /\ master # <<>> => (mpc = "done" /\ idx = Len(html_files) /\ master[1] = all_patterns)
    /\ mpc = "done" => Len(master) = 1

(***************************************************************************)
(* Claims about the notes block, the technique tags and the order of the   *)
(* steps of parse_html (checked under SpecPage).                           *)
(***************************************************************************)
\* the closed vocabulary of technique phrases, as documented
Vocabulary == { <<"s","h","o","r","t"," ","r","o","w","s">>, <<"i","n","c","r","e","a","s","e","s">>, <<"d","e","c","r","e","a","s","e","s">>, <<"w","o","r","k","e","d"," ","f","l","a","t">>,
                <<"w","o","r","k","e","d"," ","i","n"," ","t","h","e"," ","r","o","u","n","d">>, <<"t","o","p","-","d","o","w","n">>, <<"b","o","t","t","o","m","-","u","p">>, <<"m","o","d","u","l","a","r">>,
                <<"s","e","a","m","e","d">>, <<"p","i","c","k"," ","u","p"," ","s","t","i","t","c","h","e","s">>, <<"g","r","a","f","t","i","n","g">> }

\* the description of the record, empty when the record has none
DescriptionOf(res) == IF Has(res, "description") THEN res["description"] ELSE <<>>

\* the vocabulary phrases that occur in a text, letter case aside
PhrasesIn(text) == {t \in Vocabulary : Contains(Lower(text), t)}

\* some keyword of some shape occurs in the text, letter case aside
HasShapeKeyword(text) == ShapeMatches(text) # {}

\* the page has been parsed to the end and had no notes block
DoneWithoutNotes == pc = "done" /\ page.notes = Nothing

\* C11 (as stated): for a page without a notes block the record has no
\* full_text key, its techniques is the empty list, and its shape is
\* "unknown" unless the description alone contains a shape keyword.
C11_NoNotesNoTechniques ==
    DoneWithoutNotes =>
        /\ ~Has(result, "full_text")
        /\ result["techniques"] = <<>>
        /\ (~HasShapeKeyword(DescriptionOf(result)) => result["shape"] = "unknown")

\* C11 (amended): for a page without a notes block the record has no
\* full_text key, its techniques are the vocabulary phrases found in the
\* description alone (the empty list when it has none, or when there is no
\* description), and its shape is "unknown" unless the description alone
\* contains a shape keyword.
C11_NoNotesDescriptionOnly ==
    DoneWithoutNotes =>
        /\ ~Has(result, "full_text")
        /\ SeqRange(result["techniques"]) = PhrasesIn(DescriptionOf(result))
        /\ Len(result["techniques"]) = Cardinality(PhrasesIn(DescriptionOf(result)))
        /\ (~HasShapeKeyword(DescriptionOf(result)) => result["shape"] = "unknown")

\* a page without notes whose description names a technique and no shape:
\* the record has that technique, no full_text, and shape "unknown"
C11_Witness ==
    /\ DoneWithoutNotes
    /\ ~Has(result, "full_text")
    /\ result["techniques"] = << <<"s","e","a","m","e","d">> >>
    /\ ~HasShapeKeyword(DescriptionOf(result))
    /\ result["shape"] = "unknown"

\* the vocabulary in lexicographic order
VocabularyInOrder == <<
    <<"b","o","t","t","o","m","-","u","p">>, <<"d","e","c","r","e","a","s","e","s">>, <<"g","r","a","f","t","i","n","g">>, <<"i","n","c","r","e","a","s","e","s">>, <<"m","o","d","u","l","a","r">>,
    <<"p","i","c","k"," ","u","p"," ","s","t","i","t","c","h","e","s">>, <<"s","e","a","m","e","d">>, <<"s","h","o","r","t"," ","r","o","w","s">>, <<"t","o","p","-","d","o","w","n">>,
    <<"w","o","r","k","e","d"," ","f","l","a","t">>, <<"w","o","r","k","e","d"," ","i","n"," ","t","h","e"," ","r","o","u","n","d">> >>

\* the place of a phrase in the lexicographic order
PlaceOf(t) == CHOOSE i \in 1..Len(VocabularyInOrder) : VocabularyInOrder[i] = t

\* the full_text of the record, empty when the record has none
FullTextOf(res) == IF Has(res, "full_text") THEN res["full_text"] ELSE <<>>

\* the text the techniques are taken from: the description and the
\* full_text, each lower-cased, with one space between them
ClassifiedText(res) == Lower(DescriptionOf(res)) \o <<" ">> \o Lower(FullTextOf(res))

\* the record has been classified
Classified == pc \in {"links", "done"}

\* C12: techniques is exactly the set of phrases of the eleven-phrase
\* vocabulary that occur as substrings of the lower-cased description plus
\* full_text, without duplicates and in lexicographic order; it is a subset
\* of the closed vocabulary, and classifying the record's text again yields
\* the identical list.
C12_TechniquesExact ==
    Classified =>
        /\ Has(result, "techniques")
        /\ SeqRange(result["techniques"]) =
              {t \in Vocabulary : Contains(ClassifiedText(result), t)}
        /\ \A i, j \in 1..Len(result["techniques"]) :
              i < j => PlaceOf(result["techniques"][i]) < PlaceOf(result["techniques"][j])
        /\ SeqRange(result["techniques"]) \subseteq Vocabulary
        /\ Cardinality(Vocabulary) = 11
        /\ classify_stage(result)["techniques"] = result["techniques"]

\* a record with three techniques, one from the description, one from the
\* translated notes and one that spans the two, listed in lexicographic
\* order (the table lists them in another order)
C12_Witness ==
    /\ pc = "done"
    /\ result["techniques"] = << <<"g","r","a","f","t","i","n","g">>, <<"s","e","a","m","e","d">>, <<"s","h","o","r","t"," ","r","o","w","s">> >>
    /\ ~Contains(Lower(DescriptionOf(result)), <<"s","h","o","r","t"," ","r","o","w","s">>)
    /\ ~Contains(Lower(FullTextOf(result)), <<"s","h","o","r","t"," ","r","o","w","s">>)
    /\ trans.called /\ trans.ok

\* the place of a step in the documented order: field extraction, needle
\* normalization, link extraction, text normalization, classification
StatedRank(s) ==
    CASE s = "field"              -> 1
      [] s = "needle"             -> 2
      [] s = "links"              -> 3
      [] s = "notes"              -> 4
      [] s = "classify"           -> 5
      [] OTHER                    -> 0

\* the place of a step in the order of the statements of parse_html: field
\* extraction with the needle normalization inside it, the notes block and
\* its translation, classification, link extraction
CodeRank(s) ==
    CASE s \in {"field", "needle", "yarns"} -> 1
      [] s = "notes"                        -> 2
      [] s = "classify"                     -> 3
      [] s = "links"                        -> 4
      [] OTHER                              -> 0

\* the steps taken so far never go back in the given order (a step the
\* order does not place has rank 0 and is left aside)
InOrder(rank(_)) ==
    \A i, j \in 1..Len(steps) :
        (i < j /\ rank(steps[i]) > 0 /\ rank(steps[j]) > 0) => rank(steps[i]) <= rank(steps[j])

\* the text translation produced for the page: the service's answer, or the
\* cleaned notes text when the call failed
TranslationResult == IF trans.ok THEN trans.text ELSE raw_text_of(page.notes[1])

\* classification has read the description and the result of translation
ReadsTranslated ==
    Classified =>
        /\ page.notes # Nothing =>
              /\ trans.called
              /\ \E i, j \in 1..Len(steps) : i < j /\ steps[i] = "notes" /\ steps[j] = "classify"
              /\ result["full_text"] = TranslationResult
        /\ result["shape"] = detect_shape(ClassifiedText(result))
        /\ SeqRange(result["techniques"]) = PhrasesIn(ClassifiedText(result))

====
